---------------------------- MODULE Spec2Model ----------------------------
(***************************************************************************)
(* Ring (circular) buffer generated by ringbuffer_type_def /               *)
(* ringbuffer_define_all (include/ring_buffer.h) and the string transfer   *)
(* functions of include/ring_buffer_string.h.                              *)
(*                                                                         *)
(* One buffer instance `rb` of element capacity LEN is modelled.  Every    *)
(* generated function is one action; the bulk functions' for-loops are     *)
(* recursive operators that run the loop to its end inside the action.     *)
(* `call` records the last call (arguments, return value, the buffer as    *)
(* it was on entry, the destination slots written, what an invoked         *)
(* callback did).  pushes_ok, pops_ok                                      *)
(* and fifo are history variables: the number of elements accepted (one    *)
(* per push_front that returned true, plus what push_string returned),     *)
(* the number of elements consumed (one per pop_back that returned true,   *)
(* plus what the bulk pops moved `output` by), and the accepted, not yet   *)
(* consumed values in the order they were accepted.                        *)
(***************************************************************************)
EXTENDS Integers, Sequences, FiniteSets, TLC

VARIABLES LEN, rb, call, pushes_ok, pops_ok, fifo

vars == <<LEN, rb, call, pushes_ok, pops_ok, fifo>>

(***************************************************************************)
(* Bounds of the model.                                                    *)
(***************************************************************************)
\* LEN ranges over the powers of two 2^0 .. 2^MaxLog.
MaxLog == 2
\* Element values are 0 .. MaxVal; 0 is the terminator value (TYPE)0.
MaxVal == 1
\* No call is started once `input` has advanced MaxInput times.
MaxInput == 5
\* `limit` arguments of the pop functions range over 0 .. MaxLimit.
MaxLimit == 3
\* `len` arguments and source lengths of push_string range over 0 .. MaxSrc.
MaxSrc == 2
\* `offset` arguments of peek range over 0 .. MaxOffset.
MaxOffset == 4
\* The LEN arguments of ringbuffer_type_def that need not be powers of two
\* range over 0 .. MaxLen.
MaxLen == 3
\* A run that crosses the overflow of the counters starts with both counters
\* at 2^32 - k, k in 1 .. MaxBeforeWrap.
MaxBeforeWrap == 2

Values == 0 .. MaxVal

RECURSIVE Pow2(_)
Pow2(n) == IF n = 0 THEN 1 ELSE 2 * Pow2(n - 1)

Capacities == { Pow2(k) : k \in 0 .. MaxLog }

\* ringbuffer_type_def( NAME, TYPE, LEN ) declares data_buffer[ LEN ] for any
\* LEN the compiler takes as an array length (a zero length included, which
\* the GNU C the header is written in accepts).
AnyCapacities == 0 .. MaxLen

RECURSIVE SeqsUpTo(_)
\* All sequences over Values of length at most n.
SeqsUpTo(n) ==
    IF n = 0 THEN { <<>> }
    ELSE LET S == SeqsUpTo(n - 1)
         IN  S \cup { Append(s, v) : s \in { t \in S : Len(t) = n - 1 }, v \in Values }

\* The source arrays handed to push_string.
Sources == SeqsUpTo(MaxSrc)

(***************************************************************************)
(* index_t is uint32_t.  A 32-bit unsigned value is kept as two 16-bit     *)
(* halves so that the arithmetic modulo 2^32 is exact.                     *)
(***************************************************************************)
IndexHalf == 65536

index_t(n) == [hi |-> (n \div IndexHalf) % IndexHalf, lo |-> n % IndexHalf]

\* x + 1 in uint32_t (rb->input++, rb->output++).
index_inc(x) ==
    IF x.lo + 1 < IndexHalf
    THEN [hi |-> x.hi, lo |-> x.lo + 1]
    ELSE [hi |-> (x.hi + 1) % IndexHalf, lo |-> 0]

\* a + b in uint32_t.
index_add(a, b) ==
    LET s == a.lo + b.lo
    IN  [hi |-> (a.hi + b.hi + (s \div IndexHalf)) % IndexHalf, lo |-> s % IndexHalf]

\* a - b in uint32_t.
index_sub(a, b) ==
    LET borrow == IF a.lo < b.lo THEN 1 ELSE 0
    IN  [hi |-> (a.hi - b.hi - borrow + 2 * IndexHalf) % IndexHalf,
         lo |-> (a.lo - b.lo + IndexHalf) % IndexHalf]

\* The uint32_t value widened to size_t.
to_size_t(x) == x.hi * IndexHalf + x.lo

RECURSIVE BitAnd(_, _)
\* Bitwise AND of two naturals.
BitAnd(a, b) ==
    IF a = 0 \/ b = 0 THEN 0
    ELSE (a % 2) * (b % 2) + 2 * BitAnd(a \div 2, b \div 2)

(***************************************************************************)
(* Ring buffer helpers.                                                    *)
(***************************************************************************)
\* BUFFER_LEN( NAME ): ARRAY_COUNT of data_buffer.
BUFFER_LEN == LEN

\* RINGBUF_WRAP( rb, index ): index & ( ARRAY_COUNT( data_buffer ) - 1 ).
\* The mask is below 2^16, so only the low half of the index takes part.
RINGBUF_WRAP(index) == BitAnd(index.lo, BUFFER_LEN - 1)

\* RINGBUF_CURR_i( rb ): the slot at the current input position.
RINGBUF_CURR_i(b) == RINGBUF_WRAP(b.input)

\* RINGBUF_CURR_o( rb [, offset] ): the slot at the output position (+ offset).
RINGBUF_CURR_o(b, offset) == RINGBUF_WRAP(index_add(b.output, offset))

\* Mutant of count: the difference is not taken modulo 2^32; it is 0 when
\* input is below output.
count_saturating(b) ==
    IF \/ b.input.hi < b.output.hi
       \/ (b.input.hi = b.output.hi /\ b.input.lo < b.output.lo)
    THEN 0
    ELSE to_size_t(index_sub(b.input, b.output))

\* NAME_count: rb->input - rb->output, returned as size_t.
count(b) == to_size_t(index_sub(b.input, b.output))

\* NAME_empty.
empty(b) == 0 = count(b)

\* Mutant of full: the comparison is > instead of ==.
full_above(b) == count(b) > BUFFER_LEN

\* NAME_full.
full(b) == count(b) = BUFFER_LEN

(***************************************************************************)
(* The push callback.  "NULL" is no callback.  "user" is a caller-supplied *)
(* callback: whether it accepts the value and whether it stores it at the  *)
(* input position is the caller's code, drawn nondeterministically at each *)
(* invocation.                                                             *)
(***************************************************************************)
Callbacks == { "NULL", "user" }

\* The buffer after a "user" callback invocation that stores (or not).
push_callback_user(b, data, stores) ==
    IF stores
    THEN [b EXCEPT !.data_buffer[RINGBUF_CURR_i(b)] = data]
    ELSE b

\* The callback of the header's documentation (PushCallback group):
\*     rb->data_buffer[ RINGBUF_WRAP ( rb, rb->input++ ) ] = data;
\*     return true;
\* A buffer initialised with it has push_callback = "doc".
push_callback_doc(b, data) ==
    [b EXCEPT !.data_buffer[RINGBUF_CURR_i(b)] = data, !.input = index_inc(@)]

\* rb->push_callback( rb, data ): the buffer as the callback leaves it and the
\* callback's return value.
invoke_push_callback(b, data, accepts, stores) ==
    IF b.push_callback = "doc"
    THEN [rb |-> push_callback_doc(b, data), ret |-> TRUE]
    ELSE [rb |-> push_callback_user(b, data, stores), ret |-> accepts]

\* What an invocation of the callback of b may answer (nothing to choose
\* unless the callback is the caller's).
CallbackChoices(b) == IF b.push_callback = "user" THEN BOOLEAN ELSE { TRUE }

(***************************************************************************)
(* Function bodies: each yields the buffer after the call, the return      *)
(* value and what else the call did.                                       *)
(***************************************************************************)
\* NAME_init.  data_buffer is not touched.
init_def(b, push_callback) ==
    [b EXCEPT !.input = index_t(0), !.output = index_t(0),
              !.push_callback = push_callback]

\* Mutant of push_front_def: the callback is invoked before the full test.
push_front_def_callback_first(b, data, accepts, stores) ==
    IF b.push_callback # "NULL"
    THEN LET after == push_callback_user(b, data, stores)
         IN  IF ~accepts \/ full(b)
             THEN [rb |-> after, ret |-> FALSE, cb_calls |-> 1]
             ELSE [rb |-> [after EXCEPT !.input = index_inc(@)],
                   ret |-> TRUE, cb_calls |-> 1]
    ELSE IF full(b)
         THEN [rb |-> b, ret |-> FALSE, cb_calls |-> 0]
         ELSE [rb |-> [b EXCEPT !.data_buffer[RINGBUF_CURR_i(b)] = data,
                                !.input = index_inc(@)],
               ret |-> TRUE, cb_calls |-> 0]

\* Mutant of push_front_def: the direct store is made whether or not a
\* callback is set.
push_front_def_stores_always(b, data, accepts, stores) ==
    IF full(b)
    THEN [rb |-> b, ret |-> FALSE, cb_calls |-> 0]
    ELSE LET stored == [b EXCEPT !.data_buffer[RINGBUF_CURR_i(b)] = data]
         IN  IF b.push_callback # "NULL"
             THEN LET after == push_callback_user(stored, data, stores)
                  IN  IF ~accepts
                      THEN [rb |-> after, ret |-> FALSE, cb_calls |-> 1]
                      ELSE [rb |-> [after EXCEPT !.input = index_inc(@)],
                            ret |-> TRUE, cb_calls |-> 1]
             ELSE [rb |-> [stored EXCEPT !.input = index_inc(@)],
                   ret |-> TRUE, cb_calls |-> 0]

\* NAME_push_front.  accepts / stores are the callback's behaviour when a
\* callback is set and invoked.
push_front_def(b, data, accepts, stores) ==
    IF full(b)
    THEN [rb |-> b, ret |-> FALSE, cb_calls |-> 0]
    ELSE IF b.push_callback # "NULL"
         THEN LET cb == invoke_push_callback(b, data, accepts, stores)
              IN  IF ~cb.ret
                  THEN [rb |-> cb.rb, ret |-> FALSE, cb_calls |-> 1]
                  ELSE [rb |-> [cb.rb EXCEPT !.input = index_inc(@)],
                        ret |-> TRUE, cb_calls |-> 1]
         ELSE [rb |-> [b EXCEPT !.data_buffer[RINGBUF_CURR_i(b)] = data,
                                !.input = index_inc(@)],
               ret |-> TRUE, cb_calls |-> 0]

\* Mutant of pop_back_def: the empty test is missing.
pop_back_def_unguarded(b) ==
    [rb |-> [b EXCEPT !.output = index_inc(@)], ret |-> TRUE]

\* Mutant of pop_back_def: the vacated slot is overwritten with the zero
\* element.
pop_back_def_clears_slot(b) ==
    IF empty(b)
    THEN [rb |-> b, ret |-> FALSE]
    ELSE [rb |-> [b EXCEPT !.data_buffer[RINGBUF_CURR_o(b, index_t(0))] = 0,
                           !.output = index_inc(@)],
          ret |-> TRUE]

\* NAME_pop_back.
pop_back_def(b) ==
    IF empty(b)
    THEN [rb |-> b, ret |-> FALSE]
    ELSE [rb |-> [b EXCEPT !.output = index_inc(@)], ret |-> TRUE]

\* Mutant of peek_def: the offset is not added to the output position.
peek_def_at_output(b, offset) ==
    IF count(b) > to_size_t(offset)
    THEN << RINGBUF_CURR_o(b, index_t(0)) >>
    ELSE << >>

\* NAME_peek.  The returned pointer is <<slot>>, NULL is <<>>.
peek_def(b, offset) ==
    IF count(b) > to_size_t(offset)
    THEN << RINGBUF_CURR_o(b, offset) >>
    ELSE << >>

\* A destination array no slot of which has been written.  A written
\* destination is the function from the written slots to their values.
NoDest == [i \in {} |-> 0]

(***************************************************************************)
(* String transfer functions (ring_buffer_string.h).  A size_t that has    *)
(* been decremented below zero stands for 2^w - k and is kept as -k: it is *)
(* nonzero and stays nonzero for any number of further decrements a loop   *)
(* over the buffer can make.                                               *)
(***************************************************************************)
RECURSIVE push_string_loop(_, _, _, _)
\* for ( ; len && NAME_full( rb ); rb->input++, --len )
\*     RINGBUF_CURR_i( rb ) = src[ count++ ];
\* (the body reads the source array under the name src; the parameter that
\* carries it is called data).  src is the source as a sequence, 1-based.
\* The loop calls neither NAME_push_front nor rb->push_callback: the number
\* of callback invocations it makes is 0.
push_string_loop(b, src, len, cnt) ==
    IF len # 0 /\ full(b)
    THEN push_string_loop([b EXCEPT !.data_buffer[RINGBUF_CURR_i(b)] = src[cnt + 1],
                                    !.input = index_inc(@)],
                          src, len - 1, cnt + 1)
    ELSE [rb |-> b, ret |-> cnt, cb_calls |-> 0]

\* NAME_push_string.
push_string_def(b, src, len) == push_string_loop(b, src, len, 0)

RECURSIVE pop_string_loop(_, _, _, _)
\* for ( ; limit-- && NAME_count( rb ); rb->output++ )
\*     dest[ count++ ] = RINGBUF_CURR_o( rb );
pop_string_loop(b, dest, limit, cnt) ==
    IF limit # 0 /\ count(b) # 0
    THEN pop_string_loop([b EXCEPT !.output = index_inc(@)],
                         (cnt :> b.data_buffer[RINGBUF_CURR_o(b, index_t(0))]) @@ dest,
                         limit - 1, cnt + 1)
    ELSE [rb |-> b, dest |-> dest, ret |-> cnt]

\* Mutant of pop_string_def: the loop stops at a zero item, as a C string
\* copy would.
pop_string_def_stops_at_zero(b, limit) ==
    IF empty(b)
    THEN [rb |-> b, dest |-> NoDest, ret |-> 0]
    ELSE IF b.data_buffer[RINGBUF_CURR_o(b, index_t(0))] = 0
         THEN [rb |-> b, dest |-> NoDest, ret |-> 0]
         ELSE pop_string_loop(b, NoDest, limit, 0)

\* NAME_pop_string.
pop_string_def(b, limit) ==
    IF empty(b)
    THEN [rb |-> b, dest |-> NoDest, ret |-> 0]
    ELSE pop_string_loop(b, NoDest, limit, 0)

\* dest[ count ] = ( TYPE )0; return count;
terminate(b, dest, cnt) == [rb |-> b, dest |-> (cnt :> 0) @@ dest, ret |-> cnt]

RECURSIVE pop_cstring_loop(_, _, _, _)
\* for ( ; --limit && NAME_count( rb ); rb->output++ )
\*     dest[ count++ ] = RINGBUF_CURR_o( rb );
\* and, once the loop has ended, the terminator store and the return.
pop_cstring_loop(b, dest, limit, cnt) ==
    IF limit - 1 # 0 /\ count(b) # 0
    THEN pop_cstring_loop([b EXCEPT !.output = index_inc(@)],
                          (cnt :> b.data_buffer[RINGBUF_CURR_o(b, index_t(0))]) @@ dest,
                          limit - 1, cnt + 1)
    ELSE terminate(b, dest, cnt)

\* Mutant of pop_cstring_def: the loop tests limit-- instead of --limit and
\* so keeps no room for the terminator.
pop_cstring_def_full_limit(b, limit) ==
    IF empty(b)
    THEN [rb |-> b, dest |-> NoDest, ret |-> 0]
    ELSE pop_cstring_loop(b, NoDest, limit + 1, 0)

\* NAME_pop_cstring.
pop_cstring_def(b, limit) ==
    IF empty(b)
    THEN [rb |-> b, dest |-> NoDest, ret |-> 0]
    ELSE pop_cstring_loop(b, NoDest, limit, 0)

\* The conditions COND of the documentation: the item equals a given value.
Conditions == { { v } : v \in Values }

\* The behaviours BEHAV the documentation of ringbuffer_pop_cstring_cond_def
\* names: `continue` (skip the item) and `break` (stop copying).
Behaviours == { "continue", "break" }

RECURSIVE pop_cstring_cond_loop(_, _, _, _, _, _)
\* for ( ; --limit && NAME_count( rb ); rb->output++ ) {
\*     if( COND ) { BEHAV; }
\*     dest[ count++ ] = RINGBUF_CURR_o( rb ); }
\* and, once the loop has ended, the terminator store and the return.
\* COND is a test of the item at the output position: cond is the set of the
\* values it is true of.  `continue` runs rb->output++ and the loop test;
\* `break` leaves the loop.
pop_cstring_cond_loop(b, dest, limit, cnt, cond, behav) ==
    IF limit - 1 # 0 /\ count(b) # 0
    THEN LET cur  == b.data_buffer[RINGBUF_CURR_o(b, index_t(0))]
             next == [b EXCEPT !.output = index_inc(@)]
         IN  IF cur \in cond /\ behav = "break"
             THEN terminate(b, dest, cnt)
             ELSE IF cur \in cond /\ behav = "continue"
                  THEN pop_cstring_cond_loop(next, dest, limit - 1, cnt, cond, behav)
                  ELSE pop_cstring_cond_loop(next, (cnt :> cur) @@ dest,
                                             limit - 1, cnt + 1, cond, behav)
    ELSE terminate(b, dest, cnt)

\* Mutant of pop_cstring_cond_def: `break` is treated as `continue`, so the
\* matching item is consumed.
pop_cstring_cond_def_break_skips(b, limit, cond, behav) ==
    IF empty(b)
    THEN [rb |-> b, dest |-> NoDest, ret |-> 0]
    ELSE pop_cstring_cond_loop(b, NoDest, limit, 0, cond, "continue")

\* NAME_pop_string_SUFFIX (ringbuffer_pop_cstring_cond_def).
pop_cstring_cond_def(b, limit, cond, behav) ==
    IF empty(b)
    THEN [rb |-> b, dest |-> NoDest, ret |-> 0]
    ELSE pop_cstring_cond_loop(b, NoDest, limit, 0, cond, behav)

(***************************************************************************)
(* The record of a call.                                                   *)
(***************************************************************************)
\* cb_calls is the number of callback invocations the call made, cb_stores
\* whether an invoked callback wrote the value to the input position.
Call(op, n, data, ret, pre, dest, cb_calls, cb_stores, cond, behav) ==
    [op |-> op, n |-> n, data |-> data, ret |-> ret, pre |-> pre,
     dest |-> dest, cb_calls |-> cb_calls, cb_stores |-> cb_stores,
     cond |-> cond, behav |-> behav]

\* The fifo history after `k` more elements were consumed.
Consumed(f, k) == IF k >= Len(f) THEN << >> ELSE SubSeq(f, k + 1, Len(f))

\* A call that can advance `input` may start only while `input` has advanced
\* fewer than MaxInput times (pushes_ok is the number of its advances).
InBound == pushes_ok < MaxInput

(***************************************************************************)
(* Initial state: the buffer right after NAME_init.  data_buffer is not    *)
(* written by init; it starts filled with an arbitrary value.              *)
(***************************************************************************)
InitAt(capacities, callbacks, starts) ==
    /\ LEN \in capacities
    /\ \E v \in Values, cb \in callbacks, start \in starts :
          /\ rb = [input |-> start, output |-> start,
                   data_buffer |-> [i \in 0 .. LEN - 1 |-> v],
                   push_callback |-> cb]
          /\ call = Call("init", 0, << >>, TRUE, rb, NoDest, 0, FALSE, {}, "none")
    /\ pushes_ok = 0
    /\ pops_ok = 0
    /\ fifo = << >>

InitOf(capacities, callbacks) == InitAt(capacities, callbacks, { index_t(0) })

InitWith(callbacks) == InitOf(Capacities, callbacks)

Init == InitWith(Callbacks)

InitCore == InitWith({ "NULL" })

\* The buffer initialised with the callback of the header's documentation.
InitDoc == InitWith({ "doc" })

\* The buffer initialised with a caller-supplied callback.
InitCallback == InitWith({ "user" })

(***************************************************************************)
(* Actions: one per generated function.                                    *)
(***************************************************************************)
init ==
    \E cb \in Callbacks :
       /\ rb' = init_def(rb, cb)
       /\ call' = Call("init", 0, << >>, TRUE, rb, NoDest, 0, FALSE, {}, "none")
       /\ pushes_ok' = 0
       /\ pops_ok' = 0
       /\ fifo' = << >>
       /\ UNCHANGED LEN

push_front ==
    /\ InBound
    /\ \E data \in Values :
       \E accepts \in CallbackChoices(rb), stores \in CallbackChoices(rb) :
          \E r \in { push_front_def(rb, data, accepts, stores) } :
              /\ rb' = r.rb
              /\ call' = Call("push_front", 0, << data >>, r.ret, rb, NoDest,
                              r.cb_calls, r.cb_calls = 1 /\ stores, {}, "none")
              /\ pushes_ok' = IF r.ret THEN pushes_ok + 1 ELSE pushes_ok
              /\ fifo' = IF r.ret THEN Append(fifo, data) ELSE fifo
    /\ UNCHANGED <<LEN, pops_ok>>

pop_back ==
    \E r \in { pop_back_def(rb) } :
        /\ rb' = r.rb
        /\ call' = Call("pop_back", 0, << >>, r.ret, rb, NoDest, 0, FALSE, {}, "none")
        /\ pops_ok' = IF r.ret THEN pops_ok + 1 ELSE pops_ok
        /\ fifo' = IF r.ret THEN Consumed(fifo, 1) ELSE fifo
        /\ UNCHANGED <<LEN, pushes_ok>>

peek ==
    \E offset \in 0 .. MaxOffset :
       /\ call' = Call("peek", offset, << >>, peek_def(rb, index_t(offset)), rb,
                       NoDest, 0, FALSE, {}, "none")
       /\ UNCHANGED <<LEN, rb, pushes_ok, pops_ok, fifo>>

\* NAME_count, NAME_empty and NAME_full called by the user: each returns its
\* value and assigns nothing.
call_count ==
    /\ call' = Call("count", 0, << >>, count(rb), rb, NoDest, 0, FALSE, {}, "none")
    /\ UNCHANGED <<LEN, rb, pushes_ok, pops_ok, fifo>>

call_empty ==
    /\ call' = Call("empty", 0, << >>, empty(rb), rb, NoDest, 0, FALSE, {}, "none")
    /\ UNCHANGED <<LEN, rb, pushes_ok, pops_ok, fifo>>

call_full ==
    /\ call' = Call("full", 0, << >>, full(rb), rb, NoDest, 0, FALSE, {}, "none")
    /\ UNCHANGED <<LEN, rb, pushes_ok, pops_ok, fifo>>

\* The number of elements a call consumed: how far `output` moved.
Advance(pre, post) == to_size_t(index_sub(post.output, pre.output))

push_string ==
    /\ InBound
    /\ \E src \in Sources :
          \E r \in { push_string_def(rb, src, Len(src)) } :
              /\ rb' = r.rb
              /\ call' = Call("push_string", Len(src), src, r.ret, rb, NoDest,
                              r.cb_calls, FALSE, {}, "none")
              /\ pushes_ok' = pushes_ok + r.ret
              /\ fifo' = fifo \o SubSeq(src, 1, r.ret)
    /\ UNCHANGED <<LEN, pops_ok>>

pop_string ==
    \E limit \in 0 .. MaxLimit :
       \E r \in { pop_string_def(rb, limit) } :
           /\ rb' = r.rb
           /\ call' = Call("pop_string", limit, << >>, r.ret, rb, r.dest, 0, FALSE,
                           {}, "none")
           /\ fifo' = Consumed(fifo, Advance(rb, r.rb))
           /\ pops_ok' = pops_ok + Advance(rb, r.rb)
           /\ UNCHANGED <<LEN, pushes_ok>>

pop_cstring ==
    \E limit \in 0 .. MaxLimit :
       \E r \in { pop_cstring_def(rb, limit) } :
           /\ rb' = r.rb
           /\ call' = Call("pop_cstring", limit, << >>, r.ret, rb, r.dest, 0, FALSE,
                           {}, "none")
           /\ fifo' = Consumed(fifo, Advance(rb, r.rb))
           /\ pops_ok' = pops_ok + Advance(rb, r.rb)
           /\ UNCHANGED <<LEN, pushes_ok>>

pop_cstring_cond ==
    \E limit \in 0 .. MaxLimit, cond \in Conditions, behav \in Behaviours :
       \E r \in { pop_cstring_cond_def(rb, limit, cond, behav) } :
           /\ rb' = r.rb
           /\ call' = Call("pop_cstring_cond", limit, << >>, r.ret, rb, r.dest, 0, FALSE,
                           cond, behav)
           /\ fifo' = Consumed(fifo, Advance(rb, r.rb))
           /\ pops_ok' = pops_ok + Advance(rb, r.rb)
           /\ UNCHANGED <<LEN, pushes_ok>>

Next ==
    \/ init
    \/ push_front
    \/ pop_back
    \/ peek
    \/ push_string
    \/ pop_string
    \/ pop_cstring
    \/ pop_cstring_cond

Spec == Init /\ [][Next]_vars

\* The scalar functions on a buffer without a callback.
NextCore == push_front \/ pop_back \/ peek

SpecCore == InitCore /\ [][NextCore]_vars

\* The scalar functions on a buffer with the documented callback.
SpecDoc == InitDoc /\ [][NextCore]_vars

\* Every scalar function, the three queries included, on a buffer with or
\* without a callback.
NextScalar == NextCore \/ call_count \/ call_empty \/ call_full

SpecScalar == Init /\ [][NextScalar]_vars

\* The counter values 2^32 - k, k in 1 .. MaxBeforeWrap.
NearOverflow ==
    { [hi |-> IndexHalf - 1, lo |-> IndexHalf - k] : k \in 1 .. MaxBeforeWrap }

\* The buffer as 2^32 - k accepted push_front calls, each followed by a
\* pop_back, leave it: empty, with both counters at 2^32 - k.  The history
\* variables count from this state on.
InitNearOverflow == InitAt(Capacities, { "NULL" }, NearOverflow)

\* The scalar functions across the overflow of the counters.
SpecOverflow == InitNearOverflow /\ [][NextCore]_vars

\* The scalar functions on a buffer with a caller-supplied callback.
SpecCallback == InitCallback /\ [][NextCore]_vars

\* Filling by push_front, draining by pop_back, pop_string and pop_cstring,
\* on a buffer without a callback.
NextPop == push_front \/ pop_back \/ pop_string \/ pop_cstring

SpecPop == InitCore /\ [][NextPop]_vars

\* Filling by push_front, draining by pop_back and the conditional pop, on a
\* buffer without a callback.
NextCond == push_front \/ pop_back \/ pop_cstring_cond

SpecCond == InitCore /\ [][NextCond]_vars

\* The scalar functions on a buffer declared with any LEN.  NAME_init takes
\* no capacity and returns nothing: it cannot refuse a buffer.
InitAnyCapacity == InitOf(AnyCapacities, Callbacks)

NextAnyCapacity == init \/ push_front \/ pop_back \/ peek

SpecAnyCapacity == InitAnyCapacity /\ [][NextAnyCapacity]_vars

(***************************************************************************)
(* Properties.                                                             *)
(***************************************************************************)
Min(a, b) == IF a <= b THEN a ELSE b

\* The slot of the (i+1)-th oldest element of buffer b: (output + i) mod LEN.
\* (output is hi * 2^16 + lo; the sum is reduced half by half.)
SlotOf(b, i) == ((b.output.hi % LEN) * (IndexHalf % LEN) + b.output.lo + i) % LEN

\* The (i+1)-th oldest element the buffer held when the last call started.
PreItem(i) == call.pre.data_buffer[SlotOf(call.pre, i)]

\* C1: in every state reached by push_front and pop_back calls on a buffer
\* initialised without a callback, count() is the number of push_front calls
\* that returned true minus the number of pop_back calls that returned true,
\* and it lies in 0 .. LEN.
C1_CountIsPushesMinusPops ==
    /\ count(rb) = pushes_ok - pops_ok
    /\ count(rb) >= 0
    /\ count(rb) <= LEN

\* C1 witness: a push_front refused on a full buffer after pops have happened.
C1_Witness ==
    /\ call.op = "push_front"
    /\ call.ret = FALSE
    /\ pops_ok >= 1
    /\ pushes_ok - pops_ok = LEN

\* C2: without a callback, peek(offset) with offset < count() points at slot
\* (output + offset) mod LEN and that slot holds the (offset+1)-th oldest
\* accepted element that has not been popped; with offset >= count() it
\* returns NULL.  This includes states in which more than LEN elements have
\* been pushed in total.
C2_PeekIsFifo ==
    call.op = "peek" =>
        /\ Len(fifo) = count(rb)
        /\ IF call.n < count(rb)
           THEN /\ call.ret = << SlotOf(rb, call.n) >>
                /\ rb.data_buffer[call.ret[1]] = fifo[call.n + 1]
           ELSE call.ret = << >>

\* C2 witness: a peek at an element stored after the slot index wrapped.
C2_Witness ==
    /\ call.op = "peek"
    /\ call.n >= 1
    /\ call.ret # << >>
    /\ pushes_ok > LEN
    /\ call.ret[1] < SlotOf(rb, 0)
    /\ rb.data_buffer[call.ret[1]] # rb.data_buffer[SlotOf(rb, 0)]

\* C3: a push_front on a buffer with fewer than LEN elements and no callback
\* returns true and adds one element (so LEN consecutive calls on an empty
\* buffer all return true); a push_front while count() = LEN returns false,
\* leaves input, output, the callback and every slot as they were, and does
\* not invoke a configured callback.
C3_PushFrontFull ==
    call.op = "push_front" =>
        /\ (count(call.pre) < LEN /\ call.pre.push_callback = "NULL")
               => (call.ret = TRUE /\ count(rb) = count(call.pre) + 1)
        /\ count(call.pre) = LEN
               => (call.ret = FALSE /\ rb = call.pre /\ call.cb_calls = 0)

\* C3 witness: LEN = 4, four elements accepted and none consumed, a callback
\* is configured, and a further push_front has just been refused.
C3_Witness ==
    /\ call.op = "push_front"
    /\ LEN = 4
    /\ pushes_ok = LEN
    /\ pops_ok = 0
    /\ count(call.pre) = LEN
    /\ call.pre.push_callback = "user"
    /\ call.ret = FALSE

\* C4: pop_back on a buffer with count() = 0 returns false and leaves input,
\* output and the storage unchanged, in every reachable empty state.
C4_PopBackEmpty ==
    (call.op = "pop_back" /\ count(call.pre) = 0)
        => (call.ret = FALSE /\ rb = call.pre)

\* C4 witness: pop_back refused on a buffer that was filled and drained.
C4_Witness ==
    /\ call.op = "pop_back"
    /\ call.ret = FALSE
    /\ pushes_ok >= 2
    /\ pops_ok = pushes_ok
    /\ to_size_t(rb.output) >= 2

\* C5: 0 <= count() <= LEN in every state reachable by the public operations.
C5_CountWithinCapacity ==
    /\ count(rb) >= 0
    /\ count(rb) <= LEN

\* C6: push_string(source, len) on a buffer holding c <= LEN elements returns
\* min(len, LEN - c), appends that many source elements in source order,
\* leaves count() = c + min(len, LEN - c), and changes nothing when the buffer
\* is full.
C6_PushStringTransfers ==
    (call.op = "push_string" /\ count(call.pre) <= LEN) =>
        LET c == count(call.pre)
            k == Min(call.n, LEN - c)
        IN  /\ call.ret = k
            /\ count(rb) = c + k
            /\ rb.output = call.pre.output
            /\ \A i \in 0 .. k - 1 :
                  rb.data_buffer[(to_size_t(call.pre.input) + i) % LEN] = call.data[i + 1]
            /\ c = LEN => rb = call.pre

\* C7: push_string(s, k) into an empty buffer with k <= LEN returns k, and a
\* pop_string(dest, limit) that follows it with limit >= k returns k, leaves
\* dest[0 .. k-1] equal to s and leaves the buffer empty.
C7_RoundTrip ==
    [][ ( /\ call.op = "push_string"
          /\ count(call.pre) = 0
          /\ call.n <= LEN
          /\ call'.op = "pop_string"
          /\ call'.n >= call.n )
        => ( /\ call.ret = call.n
             /\ call'.ret = call.n
             /\ DOMAIN call'.dest = 0 .. call.n - 1
             /\ \A i \in 0 .. call.n - 1 : call'.dest[i] = call.data[i + 1]
             /\ count(rb') = 0 ) ]_vars

\* C8: pop_string(dest, limit) on a buffer holding c elements returns
\* r = min(limit, c), writes the r oldest elements to dest[0 .. r-1] in order
\* and no other slot of dest, advances output by r and leaves input, the
\* callback and the storage unchanged (nothing changes when r = 0).
C8_PopString ==
    call.op = "pop_string" =>
        LET c == count(call.pre)
            r == Min(call.n, c)
        IN  /\ call.ret = r
            /\ DOMAIN call.dest = 0 .. r - 1
            /\ \A i \in 0 .. r - 1 : call.dest[i] = PreItem(i)
            /\ rb = [call.pre EXCEPT !.output = index_add(@, index_t(r))]

\* C8 witness: a pop_string stopped by its limit that copied a zero element
\* followed by a nonzero one.
C8_Witness ==
    /\ call.op = "pop_string"
    /\ call.n = 2
    /\ call.ret = 2
    /\ count(rb) >= 1
    /\ call.dest[0] = 0
    /\ call.dest[1] # 0

\* C9: pop_cstring(dest, limit) with limit >= 1 on a buffer holding c elements
\* returns r = min(limit - 1, c), writes the r oldest elements to
\* dest[0 .. r-1] in order, advances output by r and leaves input unchanged.
C9_PopCstring ==
    (call.op = "pop_cstring" /\ call.n >= 1) =>
        LET c == count(call.pre)
            r == Min(call.n - 1, c)
        IN  /\ call.ret = r
            /\ \A i \in 0 .. r - 1 : i \in DOMAIN call.dest /\ call.dest[i] = PreItem(i)
            /\ rb.output = index_add(call.pre.output, index_t(r))
            /\ rb.input = call.pre.input

\* C9 witness: limit 3 on a buffer of four elements transfers two and leaves two.
C9_Witness ==
    /\ call.op = "pop_cstring"
    /\ call.n = 3
    /\ count(call.pre) = 4
    /\ call.ret = 2
    /\ count(rb) = 2
    /\ call.dest[0] # call.dest[1]

\* C10: when pop_cstring or pop_cstring_cond is called with limit >= 1 and
\* returns r, dest[r] holds the zero element, however the transfer ended.
C10_TerminatorAlways ==
    (call.op \in { "pop_cstring", "pop_cstring_cond" } /\ call.n >= 1) =>
        /\ call.ret \in DOMAIN call.dest
        /\ call.dest[call.ret] = 0

\* The elements the buffer held when the last call started, oldest first.
PreSeq == [i \in 1 .. count(call.pre) |-> PreItem(i - 1)]

\* The elements of PreSeq the condition of the last call is false of.
Kept == SelectSeq(PreSeq, LAMBDA v : v \notin call.cond)

\* The number of elements of PreSeq before the first one the condition of the
\* last call is true of (all of them when there is none).
BeforeMatch ==
    IF \E i \in 1 .. Len(PreSeq) : PreSeq[i] \in call.cond
    THEN (CHOOSE i \in 1 .. Len(PreSeq) :
             /\ PreSeq[i] \in call.cond
             /\ \A j \in 1 .. i - 1 : PreSeq[j] \notin call.cond) - 1
    ELSE Len(PreSeq)

\* C11: pop_cstring_cond with `continue` (skip) and limit > c, c the number of
\* elements held: dest receives exactly the non-matching elements in FIFO
\* order followed by the terminator, the return value is their number, every
\* element is consumed and the buffer ends empty.
C11_SkipTransfers ==
    ( /\ call.op = "pop_cstring_cond"
      /\ call.behav = "continue"
      /\ call.n > count(call.pre) ) =>
        /\ call.ret = Len(Kept)
        /\ DOMAIN call.dest = 0 .. Len(Kept)
        /\ \A i \in 1 .. Len(Kept) : call.dest[i - 1] = Kept[i]
        /\ call.dest[Len(Kept)] = 0
        /\ count(rb) = 0
        /\ rb = [call.pre EXCEPT !.output = call.pre.input]

IsPowerOfTwo(n) == \E k \in 0 .. n : Pow2(k) = n

\* C13: initialisation fails for a capacity that is zero or not a power of
\* two, so no reachable state has a buffer whose capacity is not a power of
\* two.
C13_CapacityIsPowerOfTwo == IsPowerOfTwo(LEN)

C15_PushStringUsesCallback ==
    (call.op = "push_string" /\ call.pre.push_callback # "NULL") =>
        /\ call.cb_calls >= call.ret
        /\ call.cb_calls >= count(rb) - count(call.pre)

\* C16: in pop_cstring_cond with `continue` (skip) and limit >= 1 only copied
\* elements count against limit: the call copies the first
\* min(limit - 1, number of non-matching elements held) non-matching elements
\* in order, however many matching elements it skips.
C16_SkippedNotCounted ==
    ( /\ call.op = "pop_cstring_cond"
      /\ call.behav = "continue"
      /\ call.n >= 1 ) =>
        LET k == Min(call.n - 1, Len(Kept))
        IN  /\ call.ret = k
            /\ \A i \in 0 .. k - 1 : i \in DOMAIN call.dest /\ call.dest[i] = Kept[i + 1]

\* C17: across the overflow of input and, later, of output from 2^32 - 1 to 0
\* under push_front and pop_back, count() is the number of elements held
\* (accepted minus popped) and lies in 0 .. LEN, full() and empty() hold
\* exactly at LEN and at 0 elements, and peek(offset) points at the
\* (offset+1)-th oldest element held, or is NULL from offset = count() on.
C17_OverflowHarmless ==
    /\ count(rb) = pushes_ok - pops_ok
    /\ count(rb) = Len(fifo)
    /\ count(rb) \in 0 .. LEN
    /\ full(rb) <=> Len(fifo) = LEN
    /\ empty(rb) <=> Len(fifo) = 0
    /\ call.op = "push_front" => (call.ret <=> count(call.pre) < LEN)
    /\ call.op = "pop_back" => (call.ret <=> count(call.pre) > 0)
    /\ call.op = "peek" =>
          IF call.n < Len(fifo)
          THEN /\ call.ret = << SlotOf(rb, call.n) >>
               /\ rb.data_buffer[call.ret[1]] = fifo[call.n + 1]
          ELSE call.ret = << >>

\* C17 witness: input has overflowed and output has not (input is numerically
\* below output), and a peek returned an element stored after the overflow
\* that differs from the oldest one.
C17_Witness ==
    /\ rb.input.hi = 0
    /\ rb.output.hi = IndexHalf - 1
    /\ call.op = "peek"
    /\ call.n >= 1
    /\ call.ret # << >>
    /\ rb.data_buffer[call.ret[1]] # rb.data_buffer[SlotOf(rb, 0)]
    /\ index_add(rb.output, index_t(call.n)).hi = 0

\* C18: a pop_back that returned true changed only output (input, the
\* callback and every slot, the vacated one included, are as before); peek,
\* count, empty and full changed nothing; a push_front without a callback
\* that returned true changed only input and the slot at the old input
\* position, which now holds the value.
C18_Frames ==
    /\ (call.op = "pop_back" /\ call.ret = TRUE) =>
          rb = [call.pre EXCEPT !.output = index_inc(@)]
    /\ call.op \in { "peek", "count", "empty", "full" } => rb = call.pre
    /\ (call.op = "push_front" /\ call.ret = TRUE /\ call.pre.push_callback = "NULL") =>
          /\ rb.input = index_inc(call.pre.input)
          /\ rb.output = call.pre.output
          /\ rb.push_callback = call.pre.push_callback
          /\ \A i \in 0 .. LEN - 1 :
                rb.data_buffer[i] = IF i = BitAnd(call.pre.input.lo, LEN - 1)
                                    THEN call.data[1]
                                    ELSE call.pre.data_buffer[i]

\* C18 witness: a pop_back on a buffer with a callback returned true and the
\* slot it vacated still holds a nonzero value.
C18_Witness ==
    /\ call.op = "pop_back"
    /\ call.ret = TRUE
    /\ call.pre.push_callback = "user"
    /\ rb.data_buffer[SlotOf(call.pre, 0)] # 0
    /\ count(rb) >= 1

\* C19: for every limit >= 0, pop_string, pop_cstring and pop_cstring_cond
\* write only slots 0 .. limit-1 of dest (the terminator included, so at most
\* limit slots), and pop_string and pop_cstring consume at most limit
\* elements.
C19_DestWithinLimit ==
    call.op \in { "pop_string", "pop_cstring", "pop_cstring_cond" } =>
        /\ DOMAIN call.dest \subseteq 0 .. call.n - 1
        /\ Cardinality(DOMAIN call.dest) <= call.n
        /\ call.op \in { "pop_string", "pop_cstring" } =>
              Advance(call.pre, rb) <= call.n

\* C20: on a buffer initialised with the callback of the header's
\* documentation, each push_front that returns true increases count() by
\* exactly 1, and count() never exceeds LEN under push_front and pop_back.
C20_DocCallbackCounts ==
    /\ (call.op = "push_front" /\ call.ret = TRUE) => count(rb) = count(call.pre) + 1
    /\ count(rb) <= LEN

==========================================================================
